---- MODULE Spec2Model ----
(***************************************************************************)
(* A model of gp1::window::Window (src/Engine/Window/Window.cpp): a thin   *)
(* adapter over GLFW.  The Window's own state (m_WindowData,               *)
(* m_WindowHints, m_NativeHandle) is modelled field by field.  The native  *)
(* layer is modelled as a recording environment: every GLFW call an        *)
(* operation makes is recorded, in order, in `calls`; of the library's own *)
(* state only what decides whether a handle is valid is kept               *)
(* (glfwInitialized, glfwWindows).  The EventHandler is the sequence       *)
(* `pushed` of PushEvent arguments, the Logger the sequence `log`.         *)
(***************************************************************************)
EXTENDS Integers, Sequences, FiniteSets

VARIABLES
    m_WindowData,     \* Window::m_WindowData (the settings record)
    m_WindowHints,    \* Window::m_WindowHints (hint key -> hint value)
    m_NativeHandle,   \* Window::m_NativeHandle (GLFWwindow*)
    hintLog,          \* the SetWindowHint / DefaultWindowHints calls made, in order
    glfwInitialized,  \* native layer: glfwInit succeeded and no glfwTerminate since
    glfwWindows,      \* native layer: handles of the live windows (callbacks registered)
    glfwVideoMode,    \* native layer: the primary monitor's current video mode
    pushed,           \* EventHandler: the arguments of the PushEvent calls, in order
    native,           \* the native events the library delivered to the callbacks, in order
    log,              \* m_Logger: the (severity, message) pairs logged, in order
    calls,            \* the GLFW calls made by the operation invoked last, in order
    op,               \* the operation invoked last, with its arguments
    lifecycle,        \* "uninitialized" | "initialized" | "destroyed"
    pc                \* "idle" | "polling" (inside glfwPollEvents) | "crashed"

vars == <<m_WindowData, m_WindowHints, m_NativeHandle, hintLog, glfwInitialized,
          glfwWindows, glfwVideoMode, pushed, native, log, calls, op, lifecycle, pc>>

-----------------------------------------------------------------------------
(* Bounds of the model *)

\* the most native events delivered to the callbacks in one run
MaxNative == 2
\* the most messages logged in one run (every Init() and DeInit() logs)
MaxLog == 3
\* the most SetWindowHint / DefaultWindowHints calls in one run
MaxHintOps == 3

(* Program constants *)

NULL == 0
GLFW_RELEASE == 0
GLFW_PRESS == 1
GLFW_REPEAT == 2
GLFW_RED_BITS == 135169
GLFW_GREEN_BITS == 135170
GLFW_BLUE_BITS == 135171
GLFW_REFRESH_RATE == 135183

(* Input domains *)

\* a non-null pointer value that is no window (an indeterminate m_NativeHandle)
Dangling == 0 - 1
\* the handle glfwGetPrimaryMonitor returns from an initialized library
PrimaryMonitor == 0 - 2
Dims == {1, 2}
Titles == {"GP1", "Foo"}
WindowModes == {"WINDOWED", "FULLSCREEN", "BORDERLESS"}
HintKeys == {131075, 131076}
HintValues == {0, 1}
Keys == {65, 66}
Buttons == {0}
\* the actions the library reports for a key and for a mouse button
KeyActions == {GLFW_RELEASE, GLFW_PRESS, GLFW_REPEAT}
ButtonActions == {GLFW_RELEASE, GLFW_PRESS}
\* the action values a directly invoked callback may be given
Actions == {GLFW_RELEASE, GLFW_PRESS, GLFW_REPEAT, 3}
Coords == {0, 1}
InputModes == {208897}
InputValues == {212993, 212995}
\* what a call with undefined behaviour can do: go unnoticed, or end the process
UBOutcomes == {"ignored", "crash"}
\* the video modes the primary monitor may be in
VideoModes ==
    {[width |-> w, height |-> h, redBits |-> 8, greenBits |-> 8, blueBits |-> 8,
      refreshRate |-> 60] : w \in Dims, h \in Dims}

WindowDataSet ==
    [Width : Dims, Height : Dims, FramebufferWidth : {0}, FramebufferHeight : {0},
     Title : Titles, Mode : WindowModes, VSync : BOOLEAN]

\* the empty hint map
NoHints == [k \in {} |-> 0]

-----------------------------------------------------------------------------
(* Helpers *)

\* one recorded GLFW call
Call(fn, args) == [fn |-> fn, args |-> args, title |-> ""]
CallT(fn, args, title) == [fn |-> fn, args |-> args, title |-> title]

Operation(name, args) == [name |-> name, args |-> args]

LogEntry(severity, message) == [severity |-> severity, message |-> message]

\* a handle the native layer can use
HandleValid(h) == h \in glfwWindows

SetMax(S) == CHOOSE x \in S : \A y \in S : y <= x

\* the handle a successful glfwCreateWindow returns
NewHandle == 1 + SetMax({0, m_NativeHandle} \cup glfwWindows)

\* the orders in which a range-for may visit the keys of the hint map: the map
\* is unordered, so each key once, in an order the code does not choose
HintOrders(hints) ==
    LET ks == DOMAIN hints
    IN  {o \in [1..Cardinality(ks) -> ks] :
           \A i, j \in 1..Cardinality(ks) : i # j => o[i] # o[j]}

\* for (auto& windowHint : m_WindowHints) glfwWindowHint(first, second),
\* visiting the keys in `order`
HintCalls(hints, order) ==
    [i \in 1..Len(order) |-> Call("glfwWindowHint", <<order[i], hints[order[i]]>>)]

\* the six callback registrations of Init(), in order
CallbackCalls(h) ==
    << Call("glfwSetWindowSizeCallback", <<h>>),
       Call("glfwSetFramebufferSizeCallback", <<h>>),
       Call("glfwSetKeyCallback", <<h>>),
       Call("glfwSetMouseButtonCallback", <<h>>),
       Call("glfwSetCursorPosCallback", <<h>>),
       Call("glfwSetScrollCallback", <<h>>) >>

-----------------------------------------------------------------------------
(* Construction *)

\* Window::Window(p_WindowData): the record is copied, the hint map is empty,
\* nothing native exists.  m_NativeHandle is not set by the constructor.
Window(p_WindowData, handle) ==
    /\ m_WindowData = p_WindowData
    /\ m_WindowHints = NoHints
    /\ m_NativeHandle = handle
    /\ hintLog = <<>>
    /\ glfwInitialized = FALSE
    /\ glfwWindows = {}
    /\ glfwVideoMode \in VideoModes
    /\ pushed = <<>>
    /\ native = <<>>
    /\ log = <<>>
    /\ calls = <<>>
    /\ op = Operation("Window", <<>>)
    /\ lifecycle = "uninitialized"
    /\ pc = "idle"

Init == \E p \in WindowDataSet, h \in {NULL, Dangling} : Window(p, h)

-----------------------------------------------------------------------------
(* Window::Init *)

\* lines 29-34: default hints, the user's hints, the primary monitor and its mode
InitHintCalls(hints, order, monitor) ==
    << Call("glfwInit", <<>>), Call("glfwDefaultWindowHints", <<>>) >>
    \o HintCalls(hints, order)
    \o << Call("glfwGetPrimaryMonitor", <<>>), Call("glfwGetVideoMode", <<monitor>>) >>

\* a switch whose default case also asks for the monitor's mode
InitCreateCalls_AlwaysMonitor(data, monitor, mode) ==
    << CallT("glfwCreateWindow", <<mode.width, mode.height, monitor, NULL>>,
             data.Title) >>

\* lines 36-52: the switch on m_WindowData.Mode; `mode` is what glfwGetVideoMode
\* returned (read through a null pointer when there was no monitor to ask)
InitCreateCalls(data, monitor, mode) ==
    CASE data.Mode = "FULLSCREEN" ->
           << CallT("glfwCreateWindow", <<mode.width, mode.height, monitor, NULL>>,
                    data.Title) >>
      [] data.Mode = "BORDERLESS" ->
           << Call("glfwWindowHint", <<GLFW_RED_BITS, mode.redBits>>),
              Call("glfwWindowHint", <<GLFW_GREEN_BITS, mode.greenBits>>),
              Call("glfwWindowHint", <<GLFW_BLUE_BITS, mode.blueBits>>),
              Call("glfwWindowHint", <<GLFW_REFRESH_RATE, mode.refreshRate>>),
              CallT("glfwCreateWindow", <<mode.width, mode.height, monitor, NULL>>,
                    data.Title) >>
      [] OTHER ->
           << CallT("glfwCreateWindow", <<data.Width, data.Height, NULL, NULL>>,
                    data.Title) >>

\* lines 24-27: the only failure Init() looks at
InitLog(ok) ==
    IF ~ok THEN <<LogEntry("Error", "Failed to initialize GLFW!")>> ELSE <<>>

\* an Init() that stores the size it created the window with
InitData_StoresCreatedSize(data, mode) ==
    IF data.Mode = "WINDOWED" THEN data
    ELSE [data EXCEPT !.Width = mode.width, !.Height = mode.height]

\* the settings record after Init(): no line of Init() assigns it
InitData(data, mode) == data

\* Window::Init() as one step.  The environment decides whether glfwInit succeeds
\* (ok), whether a monitor is connected (monitorThere), in which order the hint
\* map is visited (order), whether glfwCreateWindow yields a window (created),
\* and what the three undefined uses do.  glfwGetPrimaryMonitor returns null
\* from an uninitialized library and when no monitor is connected; Init() hands
\* that null to glfwGetVideoMode unchecked (ubMonitor: the process ends there,
\* or the call returns null), reads mode->width through the null it got back
\* (Fullscreen and Borderless; ubMode: the process ends, or the read yields
\* `garbage`), and hands a null window to glfwSetWindowUserPointer and the
\* callback registrations (ubHandle).
InitBody(ok, monitorThere, order, garbage, created, ubMonitor, ubMode, ubHandle) ==
    LET libOk    == glfwInitialized \/ ok
        monitor  == IF libOk /\ monitorThere THEN PrimaryMonitor ELSE NULL
        mode     == IF monitor # NULL THEN glfwVideoMode ELSE garbage
        handle   == IF libOk /\ created THEN NewHandle ELSE NULL
        log1     == log \o InitLog(ok)
        prefix   == InitHintCalls(m_WindowHints, order, monitor)
        creation == InitCreateCalls(m_WindowData, monitor, mode)
        userPtr  == <<Call("glfwSetWindowUserPointer", <<handle>>)>>
    IN  /\ op' = Operation("Init", <<>>)
        /\ glfwInitialized' = libOk
        /\ UNCHANGED <<m_WindowHints, hintLog, glfwVideoMode, pushed, native>>
        /\ IF \/ monitor = NULL /\ ubMonitor = "crash"
              \/ /\ monitor = NULL /\ ubMode = "crash"
                 /\ m_WindowData.Mode \in {"FULLSCREEN", "BORDERLESS"}
           THEN \* glfwGetVideoMode(nullptr), or mode->width with mode == nullptr,
                \* ends the process
                /\ calls' = prefix
                /\ log' = log1
                /\ pc' = "crashed"
                /\ UNCHANGED <<m_WindowData, m_NativeHandle, glfwWindows, lifecycle>>
           ELSE IF handle = NULL /\ ubHandle = "crash"
           THEN \* the null window handed to glfwSetWindowUserPointer ends the process
                /\ calls' = prefix \o creation \o userPtr
                /\ log' = log1
                /\ pc' = "crashed"
                /\ m_NativeHandle' = handle
                /\ UNCHANGED <<m_WindowData, glfwWindows, lifecycle>>
           ELSE /\ calls' = prefix \o creation \o userPtr \o CallbackCalls(handle)
                /\ log' = log1 \o <<LogEntry("Trace", "Window was created successfully.")>>
                /\ pc' = "idle"
                /\ m_WindowData' = InitData(m_WindowData, mode)
                /\ m_NativeHandle' = handle
                /\ glfwWindows' = IF handle = NULL THEN glfwWindows
                                  ELSE glfwWindows \cup {handle}
                /\ lifecycle' = "initialized"

\* an Init() that returns once glfwInit has failed
InitStep_ReturnsOnFailure(ok, monitorThere, order, garbage, created, ubMonitor, ubMode, ubHandle) ==
    IF glfwInitialized \/ ok
    THEN InitBody(ok, monitorThere, order, garbage, created, ubMonitor, ubMode, ubHandle)
    ELSE /\ op' = Operation("Init", <<>>)
         /\ calls' = <<Call("glfwInit", <<>>)>>
         /\ log' = log \o InitLog(ok)
         /\ lifecycle' = "initialized"
         /\ UNCHANGED <<m_WindowData, m_WindowHints, m_NativeHandle, hintLog,
                        glfwInitialized, glfwWindows, glfwVideoMode, pushed, native, pc>>

\* Window::Init(), lines 22-135: no statement of it leaves the function early
InitStep(ok, monitorThere, order, garbage, created, ubMonitor, ubMode, ubHandle) ==
    InitBody(ok, monitorThere, order, garbage, created, ubMonitor, ubMode, ubHandle)

\* Init() in an environment: each choice is drawn where the code reaches it (a
\* window can be created only by an initialized library; an undefined use has
\* an outcome only where Init() makes it)
Window_Init ==
    /\ pc = "idle"
    /\ Len(log) + 2 <= MaxLog
    /\ \E ok \in (IF glfwInitialized THEN {TRUE} ELSE BOOLEAN), monitorThere \in BOOLEAN,
          order \in HintOrders(m_WindowHints) :
          LET libOk     == glfwInitialized \/ ok
              noMonitor == ~(libOk /\ monitorThere)
              readsMode == noMonitor /\ m_WindowData.Mode \in {"FULLSCREEN", "BORDERLESS"}
          IN  \E created   \in (IF libOk THEN BOOLEAN ELSE {FALSE}),
                 garbage   \in (IF readsMode THEN VideoModes ELSE {glfwVideoMode}),
                 ubMonitor \in (IF noMonitor THEN UBOutcomes ELSE {"ignored"}),
                 ubMode    \in (IF readsMode THEN UBOutcomes ELSE {"ignored"}) :
                 \E ubHandle \in (IF libOk /\ created THEN {"ignored"} ELSE UBOutcomes) :
                    InitStep(ok, monitorThere, order, garbage, created, ubMonitor, ubMode,
                             ubHandle)

-----------------------------------------------------------------------------
(* Window::DeInit *)

\* a DeInit() that clears the handle it destroyed
DeInitHandle_Reset(handle) == NULL

\* m_NativeHandle after DeInit(): not assigned
DeInitHandle(handle) == handle

\* glfwDestroyWindow(m_NativeHandle); glfwTerminate(); one trace message.
\* glfwTerminate destroys every window that is left.  Destroying a handle that is
\* no live window is undefined unless it is null.
DeInitStep(ub) ==
    /\ op' = Operation("DeInit", <<>>)
    /\ UNCHANGED <<m_WindowData, m_WindowHints, hintLog, glfwVideoMode, pushed, native>>
    /\ m_NativeHandle' = DeInitHandle(m_NativeHandle)
    /\ IF ~HandleValid(m_NativeHandle) /\ m_NativeHandle # NULL /\ ub = "crash"
       THEN /\ calls' = <<Call("glfwDestroyWindow", <<m_NativeHandle>>)>>
            /\ pc' = "crashed"
            /\ UNCHANGED <<glfwInitialized, glfwWindows, log, lifecycle>>
       ELSE /\ calls' = << Call("glfwDestroyWindow", <<m_NativeHandle>>),
                           Call("glfwTerminate", <<>>) >>
            /\ glfwInitialized' = FALSE
            /\ glfwWindows' = {}
            /\ log' = Append(log, LogEntry("Trace", "Window terminated."))
            /\ lifecycle' = "destroyed"
            /\ pc' = "idle"

DeInit ==
    /\ pc = "idle"
    /\ Len(log) + 1 <= MaxLog
    /\ \E ub \in UBOutcomes : DeInitStep(ub)

-----------------------------------------------------------------------------
(* The setters and the pass-through queries *)

\* a GLFW call on m_NativeHandle: undefined when the handle is no live window
NativeCall(call, ub) ==
    /\ calls' = <<call>>
    /\ pc' = IF ~HandleValid(m_NativeHandle) /\ ub = "crash" THEN "crashed" ELSE "idle"

SetVSyncData(data, p_VSync) == [data EXCEPT !.VSync = p_VSync]

SetVSync(p_VSync) ==
    /\ pc = "idle"
    /\ op' = Operation("SetVSync", <<p_VSync>>)
    /\ m_WindowData' = SetVSyncData(m_WindowData, p_VSync)
    /\ calls' = <<Call("glfwSwapInterval", <<IF p_VSync THEN 1 ELSE 0>>)>>
    /\ UNCHANGED <<m_WindowHints, hintLog, m_NativeHandle, glfwInitialized, glfwWindows, glfwVideoMode,
                   pushed, native, log, lifecycle, pc>>

SetWidthData(data, p_Width) == [data EXCEPT !.Width = p_Width]

\* a SetHeight() that assigns the other field
SetHeightData_WritesWidth(data, p_Height) == [data EXCEPT !.Width = p_Height]

SetHeightData(data, p_Height) == [data EXCEPT !.Height = p_Height]

SetSizeData(data, p_Width, p_Height) ==
    [data EXCEPT !.Width = p_Width, !.Height = p_Height]

\* glfwSetWindowSize(m_NativeHandle, m_WindowData.Width, m_WindowData.Height)
SetWindowSizeCall(handle, data) ==
    Call("glfwSetWindowSize", <<handle, data.Width, data.Height>>)

SetWidth(p_Width) ==
    /\ pc = "idle"
    /\ op' = Operation("SetWidth", <<p_Width>>)
    /\ m_WindowData' = SetWidthData(m_WindowData, p_Width)
    /\ \E ub \in UBOutcomes : NativeCall(SetWindowSizeCall(m_NativeHandle, m_WindowData'), ub)
    /\ UNCHANGED <<m_WindowHints, hintLog, m_NativeHandle, glfwInitialized, glfwWindows, glfwVideoMode,
                   pushed, native, log, lifecycle>>

SetHeight(p_Height) ==
    /\ pc = "idle"
    /\ op' = Operation("SetHeight", <<p_Height>>)
    /\ m_WindowData' = SetHeightData(m_WindowData, p_Height)
    /\ \E ub \in UBOutcomes : NativeCall(SetWindowSizeCall(m_NativeHandle, m_WindowData'), ub)
    /\ UNCHANGED <<m_WindowHints, hintLog, m_NativeHandle, glfwInitialized, glfwWindows, glfwVideoMode,
                   pushed, native, log, lifecycle>>

SetSize(p_Width, p_Height) ==
    /\ pc = "idle"
    /\ op' = Operation("SetSize", <<p_Width, p_Height>>)
    /\ m_WindowData' = SetSizeData(m_WindowData, p_Width, p_Height)
    /\ \E ub \in UBOutcomes : NativeCall(SetWindowSizeCall(m_NativeHandle, m_WindowData'), ub)
    /\ UNCHANGED <<m_WindowHints, hintLog, m_NativeHandle, glfwInitialized, glfwWindows, glfwVideoMode,
                   pushed, native, log, lifecycle>>

SetTitleData(data, p_Title) == [data EXCEPT !.Title = p_Title]

SetTitle(p_Title) ==
    /\ pc = "idle"
    /\ op' = Operation("SetTitle", <<p_Title>>)
    /\ m_WindowData' = SetTitleData(m_WindowData, p_Title)
    /\ \E ub \in UBOutcomes :
          NativeCall(CallT("glfwSetWindowTitle", <<m_NativeHandle>>, m_WindowData'.Title), ub)
    /\ UNCHANGED <<m_WindowHints, hintLog, m_NativeHandle, glfwInitialized, glfwWindows, glfwVideoMode,
                   pushed, native, log, lifecycle>>

GetInputMode(mode) ==
    /\ pc = "idle"
    /\ op' = Operation("GetInputMode", <<mode>>)
    /\ \E ub \in UBOutcomes : NativeCall(Call("glfwGetInputMode", <<m_NativeHandle, mode>>), ub)
    /\ UNCHANGED <<m_WindowData, m_WindowHints, hintLog, m_NativeHandle, glfwInitialized,
                   glfwWindows, glfwVideoMode, pushed, native, log, lifecycle>>

SetInputMode(mode, value) ==
    /\ pc = "idle"
    /\ op' = Operation("SetInputMode", <<mode, value>>)
    /\ \E ub \in UBOutcomes :
          NativeCall(Call("glfwSetInputMode", <<m_NativeHandle, mode, value>>), ub)
    /\ UNCHANGED <<m_WindowData, m_WindowHints, hintLog, m_NativeHandle, glfwInitialized,
                   glfwWindows, glfwVideoMode, pushed, native, log, lifecycle>>

IsCloseRequested ==
    /\ pc = "idle"
    /\ op' = Operation("IsCloseRequested", <<>>)
    /\ \E ub \in UBOutcomes : NativeCall(Call("glfwWindowShouldClose", <<m_NativeHandle>>), ub)
    /\ UNCHANGED <<m_WindowData, m_WindowHints, hintLog, m_NativeHandle, glfwInitialized,
                   glfwWindows, glfwVideoMode, pushed, native, log, lifecycle>>

\* const WindowData& Window::GetWindowData() const
GetWindowData == m_WindowData

\* GLFWwindow* Window::GetNativeHandle() const
GetNativeHandle == m_NativeHandle

-----------------------------------------------------------------------------
(* The pending hint set *)

\* m_WindowHints.clear()
DefaultWindowHintsMap(hints) == NoHints

\* an insert that keeps the value of a key already present
SetWindowHintMap_KeepsOld(hints, hint, value) ==
    [k \in (DOMAIN hints) \cup {hint} |-> IF k \in DOMAIN hints THEN hints[k] ELSE value]

\* m_WindowHints.insert_or_assign(hint, value)
SetWindowHintMap(hints, hint, value) ==
    [k \in (DOMAIN hints) \cup {hint} |-> IF k = hint THEN value ELSE hints[k]]

DefaultWindowHints ==
    /\ pc = "idle"
    /\ op' = Operation("DefaultWindowHints", <<>>)
    /\ Len(hintLog) < MaxHintOps
    /\ m_WindowHints' = DefaultWindowHintsMap(m_WindowHints)
    /\ hintLog' = Append(hintLog, Operation("DefaultWindowHints", <<>>))
    /\ calls' = <<>>
    /\ UNCHANGED <<m_WindowData, m_NativeHandle, glfwInitialized, glfwWindows, glfwVideoMode,
                   pushed, native, log, lifecycle, pc>>

SetWindowHint(hint, value) ==
    /\ pc = "idle"
    /\ op' = Operation("SetWindowHint", <<hint, value>>)
    /\ Len(hintLog) < MaxHintOps
    /\ m_WindowHints' = SetWindowHintMap(m_WindowHints, hint, value)
    /\ hintLog' = Append(hintLog, Operation("SetWindowHint", <<hint, value>>))
    /\ calls' = <<>>
    /\ UNCHANGED <<m_WindowData, m_NativeHandle, glfwInitialized, glfwWindows, glfwVideoMode,
                   pushed, native, log, lifecycle, pc>>

-----------------------------------------------------------------------------
(* The typed events and the six callbacks registered by Init() *)

WindowResizeEvent(width, height) ==
    [type |-> "WindowResizeEvent", width |-> width, height |-> height]
KeyPressedEvent(key, isRepeat) ==
    [type |-> "KeyPressedEvent", key |-> key, isRepeat |-> isRepeat]
KeyReleasedEvent(key) == [type |-> "KeyReleasedEvent", key |-> key]
MouseButtonPressedEvent(button) == [type |-> "MouseButtonPressedEvent", button |-> button]
MouseButtonReleasedEvent(button) == [type |-> "MouseButtonReleasedEvent", button |-> button]
MouseMovedEvent(x, y) == [type |-> "MouseMovedEvent", x |-> x, y |-> y]
MouseScrollEvent(x, y) == [type |-> "MouseScrollEvent", x |-> x, y |-> y]

\* one native event: the callback slot it goes to and the arguments it carries
NativeEvent(slot, args) == [slot |-> slot, args |-> args]

\* a window size callback that stores the two dimensions crossed
WindowSizeData_Crossed(data, width, height) ==
    [data EXCEPT !.Width = height, !.Height = width]

\* window size callback, lines 58-59
WindowSizeData(data, width, height) ==
    [data EXCEPT !.Width = width, !.Height = height]
\* window size callback, lines 60-61
WindowSizeEvents(width, height) == <<WindowResizeEvent(width, height)>>

\* a framebuffer size callback that writes the window size fields
FramebufferSizeData_WritesSize(data, width, height) ==
    [data EXCEPT !.Width = width, !.Height = height]

\* framebuffer size callback, lines 66-67
FramebufferSizeData(data, width, height) ==
    [data EXCEPT !.FramebufferWidth = width, !.FramebufferHeight = height]
\* the framebuffer size callback has no PushEvent
FramebufferSizeEvents(width, height) == <<>>

\* a key callback that reports a repeat as a first press
KeyEvents_RepeatAsPress(key, action) ==
    CASE action = GLFW_PRESS   -> <<KeyPressedEvent(key, FALSE)>>
      [] action = GLFW_RELEASE -> <<KeyReleasedEvent(key)>>
      [] action = GLFW_REPEAT  -> <<KeyPressedEvent(key, FALSE)>>
      [] OTHER                 -> <<>>

\* key callback, the switch of lines 72-96
KeyEvents(key, action) ==
    CASE action = GLFW_PRESS   -> <<KeyPressedEvent(key, FALSE)>>
      [] action = GLFW_RELEASE -> <<KeyReleasedEvent(key)>>
      [] action = GLFW_REPEAT  -> <<KeyPressedEvent(key, TRUE)>>
      [] OTHER                 -> <<>>

\* mouse button callback, the switch of lines 101-119
MouseButtonEvents(button, action) ==
    CASE action = GLFW_PRESS   -> <<MouseButtonPressedEvent(button)>>
      [] action = GLFW_RELEASE -> <<MouseButtonReleasedEvent(button)>>
      [] OTHER                 -> <<>>

\* cursor position callback, lines 124-125
CursorPosEvents(xPos, yPos) == <<MouseMovedEvent(xPos, yPos)>>

\* a scroll callback that pushes the cursor callback's event
ScrollEvents_AsMoved(x, y) == <<MouseMovedEvent(x, y)>>

\* scroll callback, lines 130-131
ScrollEvents(x, y) == <<MouseScrollEvent(x, y)>>

\* the record after a key, mouse button, cursor or scroll callback: `data` is
\* [[maybe_unused]] there
InputData(data) == data

\* what every callback run has in common: the library runs callbacks from inside
\* glfwPollEvents, for a live window they were registered on; the callback gets
\* the record with glfwGetWindowUserPointer(window), and each PushEvent appends
\* to the handler
Deliver(event, data, events) ==
    /\ pc = "polling"
    /\ glfwInitialized
    /\ Len(native) < MaxNative
    /\ \E window \in glfwWindows :
          calls' = Append(calls, Call("glfwGetWindowUserPointer", <<window>>))
    /\ native' = Append(native, event)
    /\ m_WindowData' = data
    /\ pushed' = pushed \o events
    /\ UNCHANGED <<m_WindowHints, hintLog, m_NativeHandle, glfwInitialized, glfwWindows, glfwVideoMode,
                   log, op, lifecycle, pc>>

WindowSizeCallback(width, height) ==
    Deliver(NativeEvent("WindowSize", <<width, height>>),
            WindowSizeData(m_WindowData, width, height),
            WindowSizeEvents(width, height))

FramebufferSizeCallback(width, height) ==
    Deliver(NativeEvent("FramebufferSize", <<width, height>>),
            FramebufferSizeData(m_WindowData, width, height),
            FramebufferSizeEvents(width, height))

KeyCallback(key, action) ==
    Deliver(NativeEvent("Key", <<key, action>>),
            InputData(m_WindowData), KeyEvents(key, action))

MouseButtonCallback(button, action) ==
    Deliver(NativeEvent("MouseButton", <<button, action>>),
            InputData(m_WindowData), MouseButtonEvents(button, action))

CursorPosCallback(xPos, yPos) ==
    Deliver(NativeEvent("CursorPos", <<xPos, yPos>>),
            InputData(m_WindowData), CursorPosEvents(xPos, yPos))

ScrollCallback(x, y) ==
    Deliver(NativeEvent("Scroll", <<x, y>>),
            InputData(m_WindowData), ScrollEvents(x, y))

-----------------------------------------------------------------------------
(* Window::OnUpdate *)

\* OnUpdate() enters glfwPollEvents(); the callbacks run while it is inside
OnUpdate ==
    /\ pc = "idle"
    /\ op' = Operation("OnUpdate", <<>>)
    /\ calls' = <<Call("glfwPollEvents", <<>>)>>
    /\ pc' = "polling"
    /\ UNCHANGED <<m_WindowData, m_WindowHints, hintLog, m_NativeHandle, glfwInitialized,
                   glfwWindows, glfwVideoMode, pushed, native, log, lifecycle>>

\* glfwPollEvents() has run the callbacks of the pending events; OnUpdate() returns
OnUpdateReturn ==
    /\ pc = "polling"
    /\ pc' = "idle"
    /\ UNCHANGED <<m_WindowData, m_WindowHints, hintLog, m_NativeHandle, glfwInitialized,
                   glfwWindows, glfwVideoMode, pushed, native, log, calls, op, lifecycle>>

-----------------------------------------------------------------------------
(* Specifications *)

\* the callbacks as glfwPollEvents runs them
Callbacks ==
    \/ \E w \in Dims, h \in Dims : WindowSizeCallback(w, h)
    \/ \E w \in Dims, h \in Dims : FramebufferSizeCallback(w, h)
    \/ \E k \in Keys, a \in KeyActions : KeyCallback(k, a)
    \/ \E b \in Buttons, a \in ButtonActions : MouseButtonCallback(b, a)
    \/ \E x \in Coords, y \in Coords : CursorPosCallback(x, y)
    \/ \E x \in Coords, y \in Coords : ScrollCallback(x, y)

\* the callbacks run with any action value, as a test double of the library can
SimulatedCallbacks ==
    \/ \E w \in Dims, h \in Dims : WindowSizeCallback(w, h)
    \/ \E w \in Dims, h \in Dims : FramebufferSizeCallback(w, h)
    \/ \E k \in Keys, a \in Actions : KeyCallback(k, a)
    \/ \E b \in Buttons, a \in Actions : MouseButtonCallback(b, a)
    \/ \E x \in Coords, y \in Coords : CursorPosCallback(x, y)
    \/ \E x \in Coords, y \in Coords : ScrollCallback(x, y)

Resizers ==
    \/ \E w \in Dims : SetWidth(w)
    \/ \E h \in Dims : SetHeight(h)
    \/ \E w \in Dims, h \in Dims : SetSize(w, h)

\* a windowed Window with a fixed title on a monitor in one video mode
InitWindowed ==
    \E p \in WindowDataSet :
        /\ p.Title = "GP1" /\ p.VSync = FALSE /\ p.Mode = "WINDOWED"
        /\ p.Width = 1
        /\ \E h \in {NULL, Dangling} : Window(p, h)
        /\ glfwVideoMode.width = 2 /\ glfwVideoMode.height = 2

\* Init() called once, as the lifecycle asks
InitOnce == lifecycle = "uninitialized" /\ Window_Init

\* the event path: Init() once, then OnUpdate() with the six callbacks
NextEvents ==
    \/ InitOnce
    \/ OnUpdate
    \/ Callbacks
    \/ OnUpdateReturn

SpecEvents == InitWindowed /\ [][NextEvents]_vars

\* the same path with the callbacks given any action value
NextSimulated ==
    \/ InitOnce
    \/ OnUpdate
    \/ SimulatedCallbacks
    \/ OnUpdateReturn

SpecSimulated == InitWindowed /\ [][NextSimulated]_vars

\* the two writers of Width and Height: the size setters and the resize callback
NextResize ==
    \/ InitOnce
    \/ OnUpdate
    \/ \E w \in Dims, h \in Dims : WindowSizeCallback(w, h)
    \/ \E w \in Dims, h \in Dims : FramebufferSizeCallback(w, h)
    \/ \E k \in Keys, a \in KeyActions : KeyCallback(k, a)
    \/ OnUpdateReturn
    \/ Resizers

SpecResize == InitWindowed /\ [][NextResize]_vars

\* the pending hint set, and what Init() makes of it
InitHints ==
    \E p \in WindowDataSet :
        /\ p.Title = "GP1" /\ p.VSync = FALSE /\ p.Width = 1 /\ p.Height = 1
        /\ \E h \in {NULL, Dangling} : Window(p, h)
        /\ glfwVideoMode.width = 2 /\ glfwVideoMode.height = 2

NextHints ==
    \/ \E k \in HintKeys, v \in HintValues : SetWindowHint(k, v)
    \/ DefaultWindowHints
    \/ InitOnce

SpecHints == InitHints /\ [][NextHints]_vars

\* the lifecycle: every operation that reaches the native layer, in any order
Next ==
    \/ Window_Init
    \/ DeInit
    \/ OnUpdate
    \/ OnUpdateReturn
    \/ \E b \in BOOLEAN : SetVSync(b)
    \/ Resizers
    \/ \E t \in Titles : SetTitle(t)
    \/ \E m \in InputModes : GetInputMode(m)
    \/ \E m \in InputModes, v \in InputValues : SetInputMode(m, v)
    \/ IsCloseRequested

Spec == Init /\ [][Next]_vars

-----------------------------------------------------------------------------
(* Claims about the callbacks (SpecEvents, SpecSimulated, SpecResize) *)

\* C1: one run of the key callback for key k pushes exactly one event and no
\* other: for PRESS the key-pressed event (k, isRepeat = FALSE), for REPEAT the
\* key-pressed event (k, isRepeat = TRUE), for RELEASE the key-released event (k).
C1_KeyCallbackPushesOne ==
    [][\A k \in Keys :
         /\ native' = Append(native, NativeEvent("Key", <<k, GLFW_PRESS>>))
              => pushed' = Append(pushed, [type |-> "KeyPressedEvent", key |-> k,
                                           isRepeat |-> FALSE])
         /\ native' = Append(native, NativeEvent("Key", <<k, GLFW_REPEAT>>))
              => pushed' = Append(pushed, [type |-> "KeyPressedEvent", key |-> k,
                                           isRepeat |-> TRUE])
         /\ native' = Append(native, NativeEvent("Key", <<k, GLFW_RELEASE>>))
              => pushed' = Append(pushed, [type |-> "KeyReleasedEvent", key |-> k])
      ]_vars

\* a press of one key and a repeat of another were delivered and pushed
C1_Witness ==
    /\ native = << NativeEvent("Key", <<65, GLFW_PRESS>>),
                   NativeEvent("Key", <<66, GLFW_REPEAT>>) >>
    /\ pushed = << [type |-> "KeyPressedEvent", key |-> 65, isRepeat |-> FALSE],
                   [type |-> "KeyPressedEvent", key |-> 66, isRepeat |-> TRUE] >>

\* the typed event the dispatcher's event list names for a native event; it
\* names none for a framebuffer resize
TypedEvents(e) ==
    CASE e.slot = "WindowSize" ->
           <<[type |-> "WindowResizeEvent", width |-> e.args[1], height |-> e.args[2]]>>
      [] e.slot = "FramebufferSize" -> <<>>
      [] e.slot = "Key" /\ e.args[2] = GLFW_PRESS ->
           <<[type |-> "KeyPressedEvent", key |-> e.args[1], isRepeat |-> FALSE]>>
      [] e.slot = "Key" /\ e.args[2] = GLFW_REPEAT ->
           <<[type |-> "KeyPressedEvent", key |-> e.args[1], isRepeat |-> TRUE]>>
      [] e.slot = "Key" /\ e.args[2] = GLFW_RELEASE ->
           <<[type |-> "KeyReleasedEvent", key |-> e.args[1]]>>
      [] e.slot = "MouseButton" /\ e.args[2] = GLFW_PRESS ->
           <<[type |-> "MouseButtonPressedEvent", button |-> e.args[1]]>>
      [] e.slot = "MouseButton" /\ e.args[2] = GLFW_RELEASE ->
           <<[type |-> "MouseButtonReleasedEvent", button |-> e.args[1]]>>
      [] e.slot = "CursorPos" ->
           <<[type |-> "MouseMovedEvent", x |-> e.args[1], y |-> e.args[2]]>>
      [] e.slot = "Scroll" ->
           <<[type |-> "MouseScrollEvent", x |-> e.args[1], y |-> e.args[2]]>>
      [] OTHER -> <<>>

RECURSIVE TypedEventsOf(_)
TypedEventsOf(seq) ==
    IF seq = <<>> THEN <<>>
    ELSE TypedEventsOf(SubSeq(seq, 1, Len(seq) - 1)) \o TypedEvents(seq[Len(seq)])

\* C2 as stated: every native event delivered causes exactly one push, so the
\* i-th push is the typed event of the i-th native event.
C2_OnePushPerNativeEvent ==
    /\ Len(pushed) = Len(native)
    /\ \A i \in 1..Len(native) : <<pushed[i]>> = TypedEvents(native[i])

\* C2 as amended: every native event delivered causes exactly one push, except
\* a framebuffer resize, which causes none; the pushes are in the order of
\* delivery, and each happens inside OnUpdate(), before it returns.
C2_PushesFollowDelivery ==
    /\ [](pushed = TypedEventsOf(native))
    /\ [][pushed' # pushed =>
            /\ pc = "polling" /\ pc' = "polling" /\ op'.name = "OnUpdate"
            /\ Len(pushed') = Len(pushed) + 1
            /\ Len(native') = Len(native) + 1]_vars

\* OnUpdate() has returned after a framebuffer resize and a scroll were
\* delivered: one push for the two native events
C2_Witness ==
    /\ pc = "idle"
    /\ Len(native) = 2
    /\ native[1].slot = "FramebufferSize"
    /\ native[2].slot = "Scroll"
    /\ Len(pushed) = 1
    /\ pushed[1].type = "MouseScrollEvent"

\* C8: a run of the window-resize callback with (w, h) sets Width = w and
\* Height = h and pushes exactly one window-resize event (w, h); so as long as no
\* size setter runs after it, the record's (Width, Height) is the payload of the
\* last window-resize event pushed.
ResizePushes == {i \in 1..Len(pushed) : pushed[i].type = "WindowResizeEvent"}

SizeIsLastResize ==
    /\ ResizePushes # {}
    /\ LET e == pushed[SetMax(ResizePushes)]
       IN  GetWindowData.Width = e.width /\ GetWindowData.Height = e.height

C8_ResizeCallbackSetsSize ==
    [][/\ \A w \in Dims, h \in Dims :
            native' = Append(native, NativeEvent("WindowSize", <<w, h>>))
              => /\ m_WindowData' = [m_WindowData EXCEPT !.Width = w, !.Height = h]
                 /\ pushed' = Append(pushed, [type |-> "WindowResizeEvent",
                                              width |-> w, height |-> h])
                 /\ SizeIsLastResize'
       /\ (SizeIsLastResize /\ op'.name \notin {"SetSize", "SetWidth", "SetHeight"})
              => SizeIsLastResize'
      ]_vars

\* two different resizes were delivered; the record holds the second
C8_Witness ==
    /\ Len(native) = 2
    /\ native[1] = NativeEvent("WindowSize", <<1, 2>>)
    /\ native[2] = NativeEvent("WindowSize", <<2, 1>>)
    /\ GetWindowData.Width = 2 /\ GetWindowData.Height = 1
    /\ SizeIsLastResize

\* C10: the framebuffer-resize callback updates only FramebufferWidth and
\* FramebufferHeight and pushes nothing; the key, mouse-button, cursor and scroll
\* callbacks leave the record as it is; a key or mouse-button callback with an
\* action that no case names pushes nothing and changes nothing.
C10_CallbacksChangeOnlyTheirOwn ==
    [][native' # native =>
         LET e == native'[Len(native')]
         IN  /\ UNCHANGED <<m_WindowHints, m_NativeHandle, log>>
             /\ e.slot = "FramebufferSize" =>
                  /\ pushed' = pushed
                  /\ m_WindowData' = [m_WindowData EXCEPT
                                        !.FramebufferWidth = e.args[1],
                                        !.FramebufferHeight = e.args[2]]
             /\ e.slot \in {"Key", "MouseButton", "CursorPos", "Scroll"} =>
                  m_WindowData' = m_WindowData
             /\ (e.slot = "Key"
                 /\ e.args[2] \notin {GLFW_PRESS, GLFW_RELEASE, GLFW_REPEAT}) =>
                  pushed' = pushed
             /\ (e.slot = "MouseButton"
                 /\ e.args[2] \notin {GLFW_PRESS, GLFW_RELEASE}) =>
                  pushed' = pushed
      ]_vars

\* a framebuffer resize and a mouse-button repeat were delivered: the framebuffer
\* fields changed, the size fields did not, nothing was pushed
C10_Witness ==
    /\ native = << NativeEvent("FramebufferSize", <<2, 1>>),
                   NativeEvent("MouseButton", <<0, GLFW_REPEAT>>) >>
    /\ GetWindowData.FramebufferWidth = 2 /\ GetWindowData.FramebufferHeight = 1
    /\ GetWindowData.Width = 1
    /\ pushed = <<>>

-----------------------------------------------------------------------------
(* Claims about the lifecycle and the setters (Spec) *)

\* the calls of a sequence that go to one GLFW function
CallsTo(cs, fn) == SelectSeq(cs, LAMBDA c : c.fn = fn)

\* C3: on an initialized Window, after SetSize(w, h) the record has Width = w
\* and Height = h; after SetWidth(w) it has Width = w and the Height it had;
\* after SetHeight(h) it has Height = h and the Width it had; each time the one
\* native call made is glfwSetWindowSize with the record's (Width, Height).
C3_SettersUpdateRecordAndNative ==
    [][lifecycle = "initialized" =>
         /\ op'.name = "SetSize" =>
              /\ GetWindowData'.Width = op'.args[1]
              /\ GetWindowData'.Height = op'.args[2]
              /\ calls' = <<Call("glfwSetWindowSize",
                                 <<m_NativeHandle, op'.args[1], op'.args[2]>>)>>
         /\ op'.name = "SetWidth" =>
              /\ GetWindowData'.Width = op'.args[1]
              /\ GetWindowData'.Height = GetWindowData.Height
              /\ calls' = <<Call("glfwSetWindowSize",
                                 <<m_NativeHandle, op'.args[1], GetWindowData.Height>>)>>
         /\ op'.name = "SetHeight" =>
              /\ GetWindowData'.Height = op'.args[1]
              /\ GetWindowData'.Width = GetWindowData.Width
              /\ calls' = <<Call("glfwSetWindowSize",
                                 <<m_NativeHandle, GetWindowData.Width, op'.args[1]>>)>>
      ]_vars

\* SetHeight(2) on a live window whose record was 1 x 1
C3_Witness ==
    /\ lifecycle = "initialized"
    /\ HandleValid(m_NativeHandle)
    /\ op.name = "SetHeight" /\ op.args = <<2>>
    /\ GetWindowData.Width = 1 /\ GetWindowData.Height = 2
    /\ calls = <<Call("glfwSetWindowSize", <<m_NativeHandle, 1, 2>>)>>

\* C5: an Init() on a Window in mode Windowed with configured width w and
\* height h leaves the record at Width = w, Height = h; every native window it
\* asks for has dimensions (w, h) and no monitor, and when Init() has returned
\* it has asked for exactly one.
C5_WindowedInitUsesConfiguredSize ==
    [][(op'.name = "Init" /\ m_WindowData.Mode = "WINDOWED") =>
         /\ GetWindowData'.Width = m_WindowData.Width
         /\ GetWindowData'.Height = m_WindowData.Height
         /\ \A i \in DOMAIN calls' :
              calls'[i].fn = "glfwCreateWindow" =>
                calls'[i] = CallT("glfwCreateWindow",
                                  <<m_WindowData.Width, m_WindowData.Height, NULL, NULL>>,
                                  m_WindowData.Title)
         /\ pc' = "idle" => Len(CallsTo(calls', "glfwCreateWindow")) = 1
      ]_vars

\* a windowed 1 x 2 window was created while the monitor is in another mode
C5_Witness ==
    /\ op.name = "Init" /\ pc = "idle"
    /\ HandleValid(m_NativeHandle)
    /\ GetWindowData.Mode = "WINDOWED"
    /\ GetWindowData.Width = 1 /\ GetWindowData.Height = 2
    /\ glfwVideoMode.width = 2 /\ glfwVideoMode.height = 1
    /\ \E i \in DOMAIN calls :
          calls[i].fn = "glfwCreateWindow" /\ calls[i].args = <<1, 2, NULL, NULL>>

\* the operations that hand m_NativeHandle to the native layer
HandleOps ==
    {"DeInit", "SetWidth", "SetHeight", "SetSize", "SetTitle", "GetInputMode",
     "SetInputMode", "IsCloseRequested"}

\* C7: the handle is a live window only between Init() and DeInit(); DeInit()
\* leaves the stored handle as it is; and no operation checks the lifecycle: a
\* handle-using operation (a setter, the input-mode get and set,
\* IsCloseRequested, DeInit) invoked before Init() or after DeInit() still makes
\* its native call, with the stored handle, which is no live window.
C7_LifecycleIsNotEnforced ==
    /\ [](HandleValid(m_NativeHandle) => lifecycle = "initialized")
    /\ [][op'.name = "DeInit" => m_NativeHandle' = m_NativeHandle]_vars
    /\ [][op'.name \in HandleOps =>
            /\ calls' # <<>>
            /\ calls'[1].args # <<>>
            /\ calls'[1].args[1] = m_NativeHandle
            /\ lifecycle # "initialized" => calls'[1].args[1] \notin glfwWindows
         ]_vars

\* SetTitle() after DeInit(): the call went out with the destroyed window's handle
C7_Witness ==
    /\ lifecycle = "destroyed"
    /\ op.name = "SetTitle"
    /\ pc = "idle"
    /\ m_NativeHandle \notin {NULL, Dangling}
    /\ ~HandleValid(m_NativeHandle)
    /\ calls = <<CallT("glfwSetWindowTitle", <<m_NativeHandle>>, GetWindowData.Title)>>

\* C9: Init() never writes the settings record and never sets the swap
\* interval; in mode Fullscreen or Borderless, when there is a primary monitor
\* to ask, the window it asks for has the dimensions of that monitor's video
\* mode, on that monitor, whatever Width and Height the record holds.
C9_InitLeavesRecordAlone ==
    [][op'.name = "Init" =>
         /\ m_WindowData' = m_WindowData
         /\ CallsTo(calls', "glfwSwapInterval") = <<>>
         /\ ( /\ m_WindowData.Mode \in {"FULLSCREEN", "BORDERLESS"}
              /\ CallsTo(calls', "glfwGetVideoMode") =
                   <<Call("glfwGetVideoMode", <<PrimaryMonitor>>)>> ) =>
              CallsTo(calls', "glfwCreateWindow") =
                <<CallT("glfwCreateWindow",
                        <<glfwVideoMode.width, glfwVideoMode.height, PrimaryMonitor, NULL>>,
                        m_WindowData.Title)>>
      ]_vars

\* a fullscreen window was created 2 x 2 while the record says 1 x 1 and VSync
C9_Witness ==
    /\ op.name = "Init" /\ pc = "idle"
    /\ HandleValid(m_NativeHandle)
    /\ GetWindowData.Mode = "FULLSCREEN"
    /\ GetWindowData.VSync
    /\ GetWindowData.Width = 1 /\ GetWindowData.Height = 1
    /\ \E i \in DOMAIN calls :
          calls[i].fn = "glfwCreateWindow" /\ calls[i].args = <<2, 2, PrimaryMonitor, NULL>>

-----------------------------------------------------------------------------
(* Claims about the hints and the failure path of Init() (SpecHints) *)

\* where the pending hints begin in the log: after the last DefaultWindowHints()
PendingFrom(hl) ==
    1 + SetMax({0} \cup {i \in 1..Len(hl) : hl[i].name = "DefaultWindowHints"})

\* for each key set since the last DefaultWindowHints(), the last value given
PendingHints(hl) ==
    LET sets == {i \in PendingFrom(hl)..Len(hl) : hl[i].name = "SetWindowHint"}
        keys == {hl[i].args[1] : i \in sets}
    IN  [k \in keys |-> hl[SetMax({i \in sets : hl[i].args[1] = k})].args[2]]

\* C4: after any sequence of SetWindowHint and DefaultWindowHints calls the
\* pending hint set holds, for each key set since the last DefaultWindowHints(),
\* one entry with the last value given for it, and nothing else; right after
\* DefaultWindowHints() it is empty, and Init() does not change it.
C4_PendingHintsAreLastValues ==
    /\ m_WindowHints = PendingHints(hintLog)
    /\ (hintLog # <<>> /\ hintLog[Len(hintLog)].name = "DefaultWindowHints")
         => DOMAIN m_WindowHints = {}

\* a hint was set, overwritten, and the set was then reset
C4_Witness ==
    /\ hintLog = << Operation("SetWindowHint", <<131075, 0>>),
                    Operation("SetWindowHint", <<131075, 1>>),
                    Operation("DefaultWindowHints", <<>>) >>
    /\ DOMAIN m_WindowHints = {}

ErrorCount(l) == Len(SelectSeq(l, LAMBDA m : m.severity = "Error"))

\* the six callback registrations Init() ends with, on window `h`
Registrations(h) ==
    << Call("glfwSetWindowSizeCallback", <<h>>),
       Call("glfwSetFramebufferSizeCallback", <<h>>),
       Call("glfwSetKeyCallback", <<h>>),
       Call("glfwSetMouseButtonCallback", <<h>>),
       Call("glfwSetCursorPosCallback", <<h>>),
       Call("glfwSetScrollCallback", <<h>>) >>

\* C6 as stated: whenever glfwInit fails inside Init(), one error is logged and
\* Init() still applies the hints, asks for a window, registers the six
\* callbacks and returns.
C6_InitFailureNeverStopsInit ==
    [][(op'.name = "Init" /\ ~glfwInitialized') =>
         /\ ErrorCount(log') = ErrorCount(log) + 1
         /\ \A k \in DOMAIN m_WindowHints :
              \E i \in DOMAIN calls' :
                calls'[i] = Call("glfwWindowHint", <<k, m_WindowHints[k]>>)
         /\ Len(CallsTo(calls', "glfwCreateWindow")) = 1
         /\ Len(calls') >= 6
         /\ SubSeq(calls', Len(calls') - 5, Len(calls')) = Registrations(NULL)
         /\ pc' = "idle"
      ]_vars

\* C6, amended: when glfwInit fails, Init() logs exactly one error and has no
\* exit of its own: it applies the default hints and each pending hint and
\* asks the null monitor for its video mode.  The process may end inside the
\* native layer, at that call, at the read of the null video mode (Fullscreen
\* and Borderless) or where the null window is handed on; otherwise Init() asks
\* for one window, stores the null handle, registers the six callbacks on it,
\* logs success and returns.  And whenever window creation yields a null handle,
\* that handle is stored and handed on unchecked.
C6_InitFailureIsOnlyLogged ==
    [][op'.name = "Init" =>
         /\ ~glfwInitialized' =>
              /\ Len(log') > Len(log)
              /\ log'[Len(log) + 1] = [severity |-> "Error",
                                       message |-> "Failed to initialize GLFW!"]
              /\ ErrorCount(log') = ErrorCount(log) + 1
              /\ calls'[1] = Call("glfwInit", <<>>)
              /\ Len(CallsTo(calls', "glfwDefaultWindowHints")) = 1
              /\ \A k \in DOMAIN m_WindowHints :
                   \E i \in DOMAIN calls' :
                     calls'[i] = Call("glfwWindowHint", <<k, m_WindowHints[k]>>)
              /\ CallsTo(calls', "glfwGetVideoMode") = <<Call("glfwGetVideoMode", <<NULL>>)>>
              /\ pc' = "crashed" =>
                   \/ calls'[Len(calls')] = Call("glfwGetVideoMode", <<NULL>>)
                   \/ /\ calls'[Len(calls')] = Call("glfwSetWindowUserPointer", <<NULL>>)
                      /\ Len(CallsTo(calls', "glfwCreateWindow")) = 1
              /\ pc' # "crashed" =>
                   /\ pc' = "idle"
                   /\ Len(CallsTo(calls', "glfwCreateWindow")) = 1
                   /\ m_NativeHandle' = NULL
                   /\ log' = log \o << [severity |-> "Error",
                                        message |-> "Failed to initialize GLFW!"],
                                       [severity |-> "Trace",
                                        message |-> "Window was created successfully."] >>
         /\ (m_NativeHandle' = NULL /\ CallsTo(calls', "glfwCreateWindow") # <<>>) =>
              /\ CallsTo(calls', "glfwSetWindowUserPointer") =
                   <<Call("glfwSetWindowUserPointer", <<NULL>>)>>
              /\ pc' # "crashed" =>
                   /\ SubSeq(calls', Len(calls') - 5, Len(calls')) = Registrations(NULL)
                   /\ lifecycle' = "initialized"
      ]_vars

\* Init() with a pending hint returned after glfwInit failed
C6_Witness ==
    /\ op.name = "Init" /\ pc = "idle"
    /\ ~glfwInitialized
    /\ m_NativeHandle = NULL
    /\ DOMAIN m_WindowHints # {}
    /\ log = << [severity |-> "Error", message |-> "Failed to initialize GLFW!"],
                [severity |-> "Trace", message |-> "Window was created successfully."] >>
    /\ Len(calls) = Cardinality(DOMAIN m_WindowHints) + 12

====
